---- MODULE Spec2Model ----
(***************************************************************************)
(* Model of the 3-AD scene mirror: the controller (class Graphics,         *)
(* lib/index.ts) that assigns identities to renderable objects, queues     *)
(* commands for the worker and writes transforms to the shared buffer.     *)
(***************************************************************************)
EXTENDS Integers, Sequences, FiniteSets, TLC

\* ------------------------------------------------------------------ bounds
\* Number of user objects (Object3D instances) the caller owns.
NumObjects == 3
\* Number of distinct textures (uuids) materials can reference.
NumTextures == 1
\* Capacity of the transform buffer in objects (1024 in the source, scaled).
maxEntityCount == 2
\* How far the next-identity counter may run past maxEntityCount.
MaxOverrun == 1
\* Longest pending command queue, free list and message log explored.
MaxQueue == 2
MaxFree == 2
MaxChannel == 5
\* Number of distinct message payloads the worker sends back.
NumPayloads == 2
\* Largest pose number an object can be moved to.
MaxPose == 2
\* Number of createParticleEmitter calls explored.
NumEmitters == 1

\* ------------------------------------------------------- program constants
elementsPerTransform == 16
\* Bits of precision of an element of a Float32Array.
mantissaBits == 24

\* ----------------------------------------------------------- object world
\* The controller's own camera (Graphics.#camera).
CAM == 0
Objects == 1 .. NumObjects
AllObjects == {CAM} \cup Objects
Textures == 1 .. NumTextures
\* The Points objects that calls of createParticleEmitter make, one per call,
\* each with a texture of its own, loaded by the call.
Emitters == (NumObjects + 1) .. (NumObjects + NumEmitters)
EmitterTexture(emitter) == NumTextures + (emitter - NumObjects)
\* every object the controller can come to see
Nodes == AllObjects \cup Emitters

\* `undefined` for userData.meshId, absent key of a Map, absent texture slot.
Undefined == -1
NoObject == -1
NoTexture == 0

MaxObjectId == maxEntityCount + MaxOverrun
Ids == 0 .. (MaxObjectId - 1)

\* Class of each user object.  Objects come in families of four: a Mesh with
\* a Sprite child, a Light, and a plain Object3D group.
Kind(o) ==
    IF o = CAM THEN "PerspectiveCamera"
    ELSE IF o > NumObjects THEN "Points"
    ELSE CASE o % 4 = 1 -> "Mesh"
           [] o % 4 = 2 -> "Sprite"
           [] o % 4 = 3 -> "Light"
           [] OTHER     -> "Object3D"

\* object.parent as set up by the caller: a Sprite hangs below the Mesh before
\* it, a Mesh below the group before it; the others are roots.
Parent(o) ==
    IF o # CAM /\ o > 1 /\ Kind(o) \in {"Sprite", "Mesh"} THEN o - 1 ELSE NoObject

\* object.children
Children(o) ==
    IF o # CAM /\ o + 1 <= NumObjects /\ Parent(o + 1) = o THEN <<o + 1>> ELSE <<>>

\* Object3D.traverse: the node itself, then its descendants, depth first.
RECURSIVE Traverse(_)
Traverse(o) ==
    <<o>> \o (IF Children(o) = <<>> THEN <<>> ELSE Traverse(Children(o)[1]))

\* node instanceof Mesh || Points || Sprite || Light
IsRenderable(o) == Kind(o) \in {"Mesh", "Points", "Sprite", "Light"}

\* 'material' in node
HasMaterial(o) == Kind(o) \in {"Mesh", "Points", "Sprite"}

NoMaterial == [map |-> NoTexture, alphaMap |-> NoTexture, normalMap |-> NoTexture]

\* The materials the caller built: texture uuids per slot.
InitialMaterial(o) ==
    CASE Kind(o) = "Mesh"   -> [map |-> 1, alphaMap |-> NoTexture, normalMap |-> NoTexture]
      [] Kind(o) = "Sprite" -> [map |-> 1, alphaMap |-> ((o \div 2) % NumTextures) + 1,
                                normalMap |-> NoTexture]
      [] OTHER              -> NoMaterial

\* --------------------------------------------------------------- state
VARIABLES
    idToObject,          \* Graphics.#idToObject : a function from its keys to objects
    availableObjectIds,  \* Graphics.#availableObjectIds
    objectId,            \* Graphics.#objectId
    meshId,              \* object.userData.meshId per object
    textureCache,        \* Graphics.#textureCache
    commandQueue,        \* Graphics.#commandQueue
    array,               \* Graphics.#array, the shared transform buffer
    material,            \* node.material of each object (texture uuid per slot)
    image,               \* textures whose .image is still present
    matrixWorld,         \* object.matrixWorld of each object (a pose number)
    initCalled,          \* init() has run (canvas transferred, listener attached)
    observe,             \* whether the two logs below are being kept
    channel,             \* log of the messages posted to the worker, in order
    submitted,           \* log of the commands submitCommand put on the queue
    reports,             \* number of report() calls the last operation made
    workerLogged,        \* payloads the last operation passed to workerLog
    workerReported,      \* payloads the last operation passed to workerReport
    processed,           \* number of messages of the channel the worker handled
    rInit,               \* renderer: init ran, the render loop is going
    rIdToObject,         \* renderer: GraphicsBackend.#idToObject
    rMatrix,             \* renderer: object.matrix of the objects of #idToObject
    rScene,              \* renderer: the objects of GraphicsBackend.#scene
    rUiScene,            \* renderer: the objects of GraphicsBackend.#uiscene
    rParticleSystems,    \* renderer: the emitters of GraphicsBackend.#particle_systems
    threw,               \* whether the last operation ended in an exception
    constructed,         \* new Graphics() returned an instance
    tick,                \* where the loops of writeTransformsToArray stand
    sharedArrayBufferDefined  \* typeof SharedArrayBuffer !== 'undefined'

vars == <<idToObject, availableObjectIds, objectId, meshId, textureCache,
          commandQueue, array, material, image, matrixWorld, initCalled,
          observe, channel, submitted, reports, workerLogged, workerReported,
          processed, rInit, rIdToObject, rMatrix, rScene, rUiScene,
          rParticleSystems, threw, constructed, tick, sharedArrayBufferDefined>>

\* the state of the worker: the controller's methods never touch it
rendererVars ==
    <<processed, rInit, rIdToObject, rMatrix, rScene, rUiScene, rParticleSystems>>

\* the state of the controller: the renderer never touches it, but for the
\* shared buffer behind `array`
controllerVars ==
    <<idToObject, availableObjectIds, objectId, meshId, textureCache,
      commandQueue, material, image, matrixWorld, initCalled, observe,
      channel, submitted, reports, workerLogged, workerReported, threw,
      constructed, tick, sharedArrayBufferDefined>>

\* The controller's state as one record, so that the methods below can be
\* composed the way the code calls them.  `threw` is set once a statement
\* raised an exception: the rest of the running method is then skipped.
Ctl ==
    [idToObject |-> idToObject, availableObjectIds |-> availableObjectIds,
     objectId |-> objectId, meshId |-> meshId, textureCache |-> textureCache,
     commandQueue |-> commandQueue, array |-> array, material |-> material,
     image |-> image, matrixWorld |-> matrixWorld, initCalled |-> initCalled,
     observe |-> observe, channel |-> channel, submitted |-> submitted,
     reports |-> 0, workerLogged |-> <<>>, workerReported |-> <<>>,
     threw |-> FALSE, ret |-> Undefined, constructed |-> constructed,
     tick |-> tick]

\* ------------------------------------------------------------- commands
\* One shape for every IGraphicsCommand: the fields a command type does not
\* have stay at their defaults.
Cmd(type) ==
    [type |-> type, id |-> Undefined, obj |-> NoObject, ui |-> FALSE,
     tex |-> NoTexture, mat |-> NoMaterial]

\* this.#worker.postMessage(cmd, transfer): the message as the worker port
\* gets it, with the mark of a transfer list.
postMessage(c, cmd, transfer) ==
    IF c.observe
    THEN [c EXCEPT !.channel = Append(@, [cmd |-> cmd, transfer |-> transfer])]
    ELSE c

\* the loop of flushCommands over the commands of the queue
RECURSIVE postAll(_, _)
postAll(c, cmds) ==
    IF cmds = <<>> THEN c ELSE postAll(postMessage(c, Head(cmds), FALSE), Tail(cmds))

\* submitCommand whose immediate path also leaves the command in the queue
submitCommand_alsoQueued(c, cmd, immediate, transfer) ==
    IF immediate
    THEN [postMessage(c, cmd, transfer) EXCEPT !.commandQueue = Append(@, cmd)]
    ELSE [c EXCEPT !.commandQueue = Append(@, cmd),
                   !.submitted = IF c.observe THEN Append(@, cmd) ELSE @]

\* submitCommand whose immediate path sends what is pending first
submitCommand_flushFirst(c, cmd, immediate, transfer) ==
    IF immediate
    THEN postMessage([postAll(c, c.commandQueue) EXCEPT !.commandQueue = <<>>],
                     cmd, transfer)
    ELSE [c EXCEPT !.commandQueue = Append(@, cmd),
                   !.submitted = IF c.observe THEN Append(@, cmd) ELSE @]

\* Graphics.submitCommand(cmd, immediate, transfer)
submitCommand(c, cmd, immediate, transfer) ==
    IF immediate
    THEN postMessage(c, cmd, transfer)
    ELSE [c EXCEPT !.commandQueue = Append(@, cmd),
                   !.submitted = IF c.observe THEN Append(@, cmd) ELSE @]

\* flushCommands posting the queue and leaving it as it is
flushCommands_keepQueue(c) == postAll(c, c.commandQueue)

\* Graphics.flushCommands()
flushCommands(c) ==
    [postAll(c, c.commandQueue) EXCEPT !.commandQueue = <<>>]

\* ------------------------------------------------------------ identities
\* assignIdToObject taking the most recently released identity (pop, not shift)
assignIdToObject_lifo(c, object) ==
    LET recycle == Len(c.availableObjectIds) > 0
        id == IF recycle THEN c.availableObjectIds[Len(c.availableObjectIds)] ELSE c.objectId
        counter == IF recycle THEN c.objectId ELSE c.objectId + 1
        exceeded == ~recycle /\ counter > maxEntityCount
    IN [c EXCEPT !.availableObjectIds =
                     IF recycle THEN SubSeq(@, 1, Len(@) - 1) ELSE @,
                 !.objectId = counter,
                 !.reports = IF exceeded THEN @ + 1 ELSE @,
                 !.idToObject = [k \in DOMAIN @ \cup {id} |-> IF k = id THEN object ELSE @[k]],
                 !.meshId[object] = id,
                 !.ret = id]

\* assignIdToObject advancing the counter on every call, recycled or not
assignIdToObject_alwaysCount(c, object) ==
    LET recycle == Len(c.availableObjectIds) > 0
        id == IF recycle THEN Head(c.availableObjectIds) ELSE c.objectId
        counter == c.objectId + 1
        exceeded == ~recycle /\ counter > maxEntityCount
    IN [c EXCEPT !.availableObjectIds = IF recycle THEN Tail(@) ELSE @,
                 !.objectId = counter,
                 !.reports = IF exceeded THEN @ + 1 ELSE @,
                 !.idToObject = [k \in DOMAIN @ \cup {id} |-> IF k = id THEN object ELSE @[k]],
                 !.meshId[object] = id,
                 !.ret = id]

\* assignIdToObject reporting as soon as the counter reaches the capacity
assignIdToObject_reportAtN(c, object) ==
    LET recycle == Len(c.availableObjectIds) > 0
        id == IF recycle THEN Head(c.availableObjectIds) ELSE c.objectId
        counter == IF recycle THEN c.objectId ELSE c.objectId + 1
        exceeded == ~recycle /\ counter >= maxEntityCount
    IN [c EXCEPT !.availableObjectIds = IF recycle THEN Tail(@) ELSE @,
                 !.objectId = counter,
                 !.reports = IF exceeded THEN @ + 1 ELSE @,
                 !.idToObject = [k \in DOMAIN @ \cup {id} |-> IF k = id THEN object ELSE @[k]],
                 !.meshId[object] = id,
                 !.ret = id]

\* assignIdToObject handing out the counter's value after the increment
assignIdToObject_countFromOne(c, object) ==
    LET recycle == Len(c.availableObjectIds) > 0
        counter == IF recycle THEN c.objectId ELSE c.objectId + 1
        id == IF recycle THEN Head(c.availableObjectIds) ELSE counter
        exceeded == ~recycle /\ counter > maxEntityCount
    IN [c EXCEPT !.availableObjectIds = IF recycle THEN Tail(@) ELSE @,
                 !.objectId = counter,
                 !.reports = IF exceeded THEN @ + 1 ELSE @,
                 !.idToObject = [k \in DOMAIN @ \cup {id} |-> IF k = id THEN object ELSE @[k]],
                 !.meshId[object] = id,
                 !.ret = id]

\* Graphics.assignIdToObject(object)
assignIdToObject(c, object) ==
    LET recycle == Len(c.availableObjectIds) > 0
        id == IF recycle THEN Head(c.availableObjectIds) ELSE c.objectId
        counter == IF recycle THEN c.objectId ELSE c.objectId + 1
        exceeded == ~recycle /\ counter > maxEntityCount
    IN [c EXCEPT !.availableObjectIds = IF recycle THEN Tail(@) ELSE @,
                 !.objectId = counter,
                 !.reports = IF exceeded THEN @ + 1 ELSE @,
                 !.idToObject = [k \in DOMAIN @ \cup {id} |-> IF k = id THEN object ELSE @[k]],
                 !.meshId[object] = id,
                 !.ret = id]

\* JavaScript truthiness of node.userData.meshId
Truthy(id) == id # Undefined /\ id # 0

\* removal that also forgets the textures of the removed node
removeNode_evictTextures(c, node) ==
    IF Truthy(c.meshId[node])
    THEN LET id == c.meshId[node]
             c1 == submitCommand(c, [Cmd("removeObject") EXCEPT !.id = id], FALSE, FALSE)
         IN [c1 EXCEPT !.idToObject = [k \in DOMAIN @ \ {id} |-> @[k]],
                       !.availableObjectIds = Append(@, id),
                       !.textureCache = @ \ {c.material[node].map, c.material[node].alphaMap}]
    ELSE c

\* the callback of object.traverse in Graphics.removeObjectFromScene
removeNode(c, node) ==
    IF Truthy(c.meshId[node])
    THEN LET id == c.meshId[node]
             c1 == submitCommand(c, [Cmd("removeObject") EXCEPT !.id = id], FALSE, FALSE)
         IN [c1 EXCEPT !.idToObject = [k \in DOMAIN @ \ {id} |-> @[k]],
                       !.availableObjectIds = Append(@, id)]
    ELSE c

RECURSIVE removeNodes(_, _)
removeNodes(c, nodes) ==
    IF nodes = <<>> THEN c
    ELSE removeNodes(removeNode(c, Head(nodes)), Tail(nodes))

\* Graphics.removeObjectFromScene(object)
removeObjectFromScene(c, object) == removeNodes(c, Traverse(object))

\* -------------------------------------------------------------- textures
\* uploadTexture that drops a texture from the cache when it finds it there
uploadTexture_evictOnHit(c, map, ui) ==
    IF map \in c.textureCache THEN [c EXCEPT !.textureCache = @ \ {map}]
    ELSE IF map \notin c.image THEN [c EXCEPT !.threw = TRUE]
    ELSE submitCommand([c EXCEPT !.textureCache = @ \cup {map}],
                       [Cmd("uploadTexture") EXCEPT !.tex = map, !.ui = ui],
                       FALSE, TRUE)

\* Graphics.uploadTexture(map, ui); reading width/height of a texture whose
\* image was deleted throws a TypeError.
uploadTexture(c, map, ui) ==
    IF map \in c.textureCache THEN c
    ELSE IF map \notin c.image THEN [c EXCEPT !.threw = TRUE]
    ELSE submitCommand([c EXCEPT !.textureCache = @ \cup {map}],
                       [Cmd("uploadTexture") EXCEPT !.tex = map, !.ui = ui],
                       FALSE, TRUE)

\* Graphics.extractMaterialTextures(material, ui)
extractMaterialTextures(c, mat, ui) ==
    LET c1 == IF mat.map # NoTexture THEN uploadTexture(c, mat.map, ui) ELSE c
    IN IF c1.threw THEN c1
       ELSE IF mat.alphaMap # NoTexture THEN uploadTexture(c1, mat.alphaMap, ui) ELSE c1

\* `delete material.<slot>.image` for the slots a material of the model has
deleteImages(c, mat) ==
    [c EXCEPT !.image = @ \ {mat.map, mat.alphaMap, mat.normalMap}]

\* the callback of object.traverse in Graphics.addObjectToScene
addNode(c, node, ui) ==
    IF ~IsRenderable(node) THEN c
    ELSE LET c1 == assignIdToObject(c, node)
             id == c1.ret
             mat == c1.material[node]
             c2 == IF HasMaterial(node) THEN extractMaterialTextures(c1, mat, ui) ELSE c1
             c3 == IF HasMaterial(node) /\ ~c2.threw THEN deleteImages(c2, mat) ELSE c2
         IN IF c3.threw THEN c3
            ELSE submitCommand(c3, [Cmd("addObject") EXCEPT !.id = id, !.obj = node,
                                        !.ui = ui, !.mat = mat], FALSE, FALSE)

RECURSIVE addNodes(_, _, _)
addNodes(c, nodes, ui) ==
    IF nodes = <<>> \/ c.threw THEN c
    ELSE addNodes(addNode(c, Head(nodes), ui), Tail(nodes), ui)

\* addObjectToScene that looks at the given object only, not at its children
addObjectToScene_rootOnly(c, object, ui) == addNodes(c, <<object>>, ui)

\* Graphics.addObjectToScene(object, ui)
addObjectToScene(c, object, ui) == addNodes(c, Traverse(object), ui)

\* createParticleEmitter announcing the particle system before it registers
\* the emitter
createParticleEmitter_systemFirst(c, emitter) ==
    LET texture == EmitterTexture(emitter)
        c1 == [c EXCEPT !.image = @ \cup {texture},
                        !.material[emitter] = [map |-> texture, alphaMap |-> texture,
                                               normalMap |-> NoTexture]]
        c2 == submitCommand(c1, [Cmd("createParticleSystem") EXCEPT
                                    !.id = c1.meshId[emitter]], FALSE, FALSE)
    IN addObjectToScene(c2, emitter, FALSE)

\* Graphics.createParticleEmitter(texturePath), from the point where the
\* texture is loaded: the material and the Points object are made, the
\* emitter is registered and its particle system announced.  The position
\* the call gives the emitter plays no part in the commands.
createParticleEmitter(c, emitter) ==
    LET texture == EmitterTexture(emitter)
        c1 == [c EXCEPT !.image = @ \cup {texture},
                        !.material[emitter] = [map |-> texture, alphaMap |-> texture,
                                               normalMap |-> NoTexture]]
        c2 == addObjectToScene(c1, emitter, FALSE)
    IN IF c2.threw THEN c2
       ELSE submitCommand(c2, [Cmd("createParticleSystem") EXCEPT
                                  !.id = c2.meshId[emitter]], FALSE, FALSE)

\* the callback of object.traverse in Graphics.updateMaterial
updateNode(c, node, ui) ==
    IF Kind(node) \notin {"Mesh", "Sprite"} THEN c
    ELSE LET mat == c.material[node]
             c1 == extractMaterialTextures(c, mat, ui)
         IN IF c1.threw THEN c1
            ELSE submitCommand(c1, [Cmd("updateMaterial") EXCEPT !.id = c1.meshId[node],
                                        !.mat = mat], FALSE, FALSE)

RECURSIVE updateNodes(_, _, _)
updateNodes(c, nodes, ui) ==
    IF nodes = <<>> \/ c.threw THEN c
    ELSE updateNodes(updateNode(c, Head(nodes), ui), Tail(nodes), ui)

\* Graphics.updateMaterial(object, ui)
updateMaterial(c, object, ui) == updateNodes(c, Traverse(object), ui)

\* ------------------------------------------------------------ transforms
\* object.matrixWorld.elements[i] for the poses of the model, column-major as
\* three.js stores it: pose 0 is the identity, pose 1 a quarter turn about Z
\* (whose element 0 is 0), pose p > 1 a uniform scale by p at a position far
\* out on the X axis (element 12), one unit further for every pose.
Poses == 0 .. MaxPose

Elements(pose, i) ==
    CASE pose = 0 -> IF i \in {0, 5, 10, 15} THEN 1 ELSE 0
      [] pose = 1 -> IF i \in {1, 10, 15} THEN 1 ELSE IF i = 4 THEN -1 ELSE 0
      [] OTHER    -> IF i \in {0, 5, 10} THEN pose
                     ELSE IF i = 12 THEN 2 ^ mantissaBits + pose - 1
                     ELSE IF i = 15 THEN 1 ELSE 0

\* the spacing of the numbers a Float32Array element can hold, around a > 0
RECURSIVE Grain(_)
Grain(a) == IF a < 2 ^ mantissaBits THEN 1 ELSE 2 * Grain(a \div 2)

\* the conversion of a store into a Float32Array, for whole numbers: the
\* nearest number with mantissaBits bits of precision, ties to the even one
fround(x) ==
    LET a == IF x < 0 THEN -x ELSE x
        g == Grain(a)
        q == a \div g
        r == a % g
        up == 2 * r > g \/ (2 * r = g /\ q % 2 = 1)
        m == (IF up THEN q + 1 ELSE q) * g
    IN IF x < 0 THEN -m ELSE m

\* the size of #array in elements: #bufferSize / #bytesPerElement
ArrayLength == elementsPerTransform * maxEntityCount

\* the elements of #array the loops of writeTransformsToArray address for an
\* identity: offset + i for i = 0 .. 15, offset = id * #elementsPerTransform
Record(id) ==
    {id * elementsPerTransform + i : i \in 0 .. (elementsPerTransform - 1)}

\* the inner loop storing the elements as they are, unconverted
copyMatrix_exact(arr, offset, pose) ==
    [k \in DOMAIN arr |->
        IF k - offset \in 0 .. (elementsPerTransform - 1)
        THEN Elements(pose, k - offset) ELSE arr[k]]

\* the inner loop of writeTransformsToArray: this.#array[offset + i] =
\* elements[i] for i = 0 .. 15; a store outside a typed array is ignored
copyMatrix(arr, offset, pose) ==
    [k \in DOMAIN arr |->
        IF k - offset \in 0 .. (elementsPerTransform - 1)
        THEN fround(Elements(pose, k - offset)) ELSE arr[k]]

\* the outer loop of writeTransformsToArray over the entries of #idToObject
RECURSIVE writeEntries(_, _, _)
writeEntries(c, arr, ids) ==
    IF ids = {} THEN arr
    ELSE LET id == CHOOSE k \in ids : \A j \in ids : k <= j
             offset == id * elementsPerTransform
         IN writeEntries(c, copyMatrix(arr, offset, c.matrixWorld[c.idToObject[id]]),
                         ids \ {id})

\* writeTransformsToArray that also clears the records of the identities that
\* are not live
writeTransformsToArray_clearOthers(c) ==
    [c EXCEPT !.array =
        writeEntries(c, [k \in DOMAIN @ |->
                            IF (k \div elementsPerTransform) \in DOMAIN c.idToObject
                            THEN @[k] ELSE 0],
                     DOMAIN c.idToObject)]

\* Graphics.writeTransformsToArray()
writeTransformsToArray(c) ==
    [c EXCEPT !.array = writeEntries(c, @, DOMAIN c.idToObject)]

\* The same tick store by store, for what the worker can see of it while it
\* runs: update() up to the first store, with the entries of #idToObject in
\* the order the Map yields them, and then one store of the inner loop at a
\* time.  The tick stands at element i of the record of the first identity of
\* ids; with no identity left it is over.
NoTick == [ids |-> <<>>, i |-> 0]

\* the orders a Map can hold the given keys in
Orderings(keys) ==
    {order \in [1 .. Cardinality(keys) -> keys] :
        \A a, b \in 1 .. Cardinality(keys) : order[a] = order[b] => a = b}

updateBegin(c, order) ==
    [flushCommands(c) EXCEPT !.tick = [ids |-> order, i |-> 0]]

\* a store that leaves out the last element of every record
storeElement_skipLast(c) ==
    LET id == Head(c.tick.ids)
        i == c.tick.i
        k == id * elementsPerTransform + i
        last == i = elementsPerTransform - 1
    IN [c EXCEPT !.array = IF k \in DOMAIN @ /\ ~last
                           THEN [@ EXCEPT ![k] = fround(Elements(c.matrixWorld[c.idToObject[id]], i))]
                           ELSE @,
                 !.tick = IF last THEN [ids |-> Tail(c.tick.ids), i |-> 0]
                          ELSE [@ EXCEPT !.i = i + 1]]

\* this.#array[offset + i] = object.matrixWorld.elements[i], and the step of
\* the loops to the next element
storeElement(c) ==
    LET id == Head(c.tick.ids)
        i == c.tick.i
        k == id * elementsPerTransform + i
        last == i = elementsPerTransform - 1
    IN [c EXCEPT !.array = IF k \in DOMAIN @
                           THEN [@ EXCEPT ![k] = fround(Elements(c.matrixWorld[c.idToObject[id]], i))]
                           ELSE @,
                 !.tick = IF last THEN [ids |-> Tail(c.tick.ids), i |-> 0]
                          ELSE [@ EXCEPT !.i = i + 1]]

\* update() that writes the transforms and leaves the queue alone
update_writeOnly(c) == writeTransformsToArray(c)

\* Graphics.update()
update(c) == writeTransformsToArray(flushCommands(c))

\* -------------------------------------------------------------- renderer
\* what an element read beyond the end of a Float32Array is: undefined
UndefinedElement == 0 - 2 ^ 30

\* new Matrix4().fromArray(transformArray, offset).elements
fromArray(arr, offset) ==
    [i \in 0 .. (elementsPerTransform - 1) |->
        IF offset + i \in DOMAIN arr THEN arr[offset + i] ELSE UndefinedElement]

\* an object.matrix of the renderer: the elements copied from the buffer, or
\* the result of makeScale(0.1, 0.1, 0.1), or the matrix parsed from the
\* object's JSON while no tick has read the buffer for it
Parsed == [kind |-> "parsed", elements |-> <<>>]
Scaled == [kind |-> "makeScale", elements |-> <<>>]
Copied(elements) == [kind |-> "copied", elements |-> elements]

\* the body of the loop of readTransformsFromArray for one identity
readTransform(arr, id) ==
    LET matrix == fromArray(arr, id * elementsPerTransform)
    IN IF matrix[0] = 0 THEN Scaled ELSE Copied(matrix)

\* readTransformsFromArray that repairs an empty record in the buffer itself
readTransformsFromArray_fixInPlace(arr, ids) ==
    [matrix |-> [id \in ids |-> readTransform(arr, id)],
     transformArray |->
        [k \in DOMAIN arr |->
            IF /\ k \div elementsPerTransform \in ids
               /\ k % elementsPerTransform = 0
               /\ arr[k] = 0
            THEN 1 ELSE arr[k]]]

\* readTransformsFromArray going through every record of the buffer
readTransformsFromArray_allRecords(arr, ids) ==
    [matrix |-> [id \in ids \cup (0 .. (maxEntityCount - 1)) |-> readTransform(arr, id)],
     transformArray |-> arr]

\* GraphicsBackend.readTransformsFromArray(transformArray): the matrices of
\* the objects after the loop, and the buffer, which the loop only reads
readTransformsFromArray(arr, ids) ==
    [matrix |-> [id \in ids |-> readTransform(arr, id)],
     transformArray |-> arr]

\* The renderer's state as one record, for its command handlers.
Rnd ==
    [init |-> rInit, idToObject |-> rIdToObject, matrix |-> rMatrix,
     scene |-> rScene, uiscene |-> rUiScene, particle_systems |-> rParticleSystems]

\* an object of the renderer: the node it mirrors and the message that made it
RObject(node, born) == [node |-> node, born |-> born]

\* the renderer's own camera, made with the renderer
RCamera == RObject(CAM, 0)

\* this.#idToObject.set(id, object), with the object's matrix
register(r, id, object) ==
    [r EXCEPT !.idToObject = [k \in DOMAIN @ \cup {id} |-> IF k = id THEN object ELSE @[k]],
              !.matrix = [k \in DOMAIN @ \cup {id} |-> IF k = id THEN Parsed ELSE @[k]]]

\* GraphicsBackend.init(cmd): the camera joins the scene under identity 0 and
\* the render loop starts
backendInit(r) ==
    [register(r, 0, RCamera) EXCEPT !.init = TRUE, !.scene = @ \cup {RCamera}]

\* GraphicsBackend.addObject({ id, data, ui }); `born` tells the objects that
\* ObjectLoader.parse makes apart
backendAddObject(r, cmd, born) ==
    LET object == RObject(cmd.obj, born)
        r1 == IF cmd.ui THEN [r EXCEPT !.uiscene = @ \cup {object}]
                        ELSE [r EXCEPT !.scene = @ \cup {object}]
    IN register(r1, cmd.id, object)

\* GraphicsBackend.removeObject({ id }); removing an identity that is not in
\* the map removes nothing from the scene
backendRemoveObject(r, cmd) ==
    LET known == cmd.id \in DOMAIN r.idToObject
    IN [r EXCEPT !.idToObject = [k \in DOMAIN @ \ {cmd.id} |-> @[k]],
                 !.matrix = [k \in DOMAIN @ \ {cmd.id} |-> @[k]],
                 !.scene = IF known THEN @ \ {r.idToObject[cmd.id]} ELSE @]

\* GraphicsBackend.createParticleSystem(cmd): reading the geometry of an
\* emitter the map does not have is a TypeError, which ends the handler
backendCreateParticleSystem(r, cmd) ==
    IF cmd.id \in DOMAIN r.idToObject
    THEN [r EXCEPT !.particle_systems = @ \cup {r.idToObject[cmd.id]}]
    ELSE r

\* the worker's message handler: the method named by the command's type
dispatch(r, cmd, born) ==
    CASE cmd.type = "init" -> backendInit(r)
      [] cmd.type = "addObject" -> backendAddObject(r, cmd, born)
      [] cmd.type = "removeObject" -> backendRemoveObject(r, cmd)
      [] cmd.type = "createParticleSystem" -> backendCreateParticleSystem(r, cmd)
      [] OTHER -> r

\* ---------------------------------------------------------- back channel
\* the messages the worker can send: the two tags the backend uses, and tags
\* it does not use
Payloads == 1 .. NumPayloads
BackChannelTags == {"log", "report", "warn", "init"}
BackChannelMessages == [type : BackChannelTags, message : Payloads]

\* the handler without its `report` case (lib/commands.ts:203-215)
onmessage_logOnly(c, data) ==
    CASE data.type = "log" -> [c EXCEPT !.workerLogged = Append(@, data.message)]
      [] OTHER -> [c EXCEPT !.reports = @ + 1]

\* this.#worker.onmessage, set in the constructor
onmessage(c, data) ==
    CASE data.type = "log" -> [c EXCEPT !.workerLogged = Append(@, data.message)]
      [] data.type = "report" -> [c EXCEPT !.workerReported = Append(@, data.message)]
      [] OTHER -> [c EXCEPT !.reports = @ + 1]

\* ----------------------------------------------------------- constructor
\* new Graphics(): the report when SharedArrayBuffer is not defined, then
\* `new SharedArrayBuffer(...)`, a ReferenceError in that case, before the
\* array and the worker are made.
constructor(c) ==
    LET c1 == IF ~sharedArrayBufferDefined THEN [c EXCEPT !.reports = @ + 1] ELSE c
    IN IF ~sharedArrayBufferDefined
       THEN [c1 EXCEPT !.threw = TRUE]
       ELSE [c1 EXCEPT !.constructed = TRUE]

\* ------------------------------------------------------------------ init
\* init() that hands the canvas over without registering the camera
init_noCamera(c) ==
    LET c2 == submitCommand(c, Cmd("init"), TRUE, TRUE)
        c3 == submitCommand(c2, Cmd("resize"), FALSE, FALSE)
    IN [c3 EXCEPT !.initCalled = TRUE]

\* Graphics.init(): the camera gets an identity, the canvas is handed to the
\* worker with the init command, the first resize is queued and the resize
\* listener attached.
init(c) ==
    LET c1 == assignIdToObject(c, CAM)
        c2 == submitCommand(c1, Cmd("init"), TRUE, TRUE)
        c3 == submitCommand(c2, Cmd("resize"), FALSE, FALSE)
    IN [c3 EXCEPT !.initCalled = TRUE]

\* a resize listener that posts its command at once
onResize_immediate(c) == submitCommand(c, Cmd("resize"), TRUE, FALSE)

\* the window 'resize' listener that init() attaches
onResize(c) == submitCommand(c, Cmd("resize"), FALSE, FALSE)

\* --------------------------------------------------------------- actions
\* The explored part of the state space: counters and queues stay in bounds.
IsSceneCmd(cmd) == cmd.type # "createParticleSystem"

InBounds(c) ==
    /\ c.objectId <= MaxObjectId
    /\ Len(SelectSeq(c.commandQueue, IsSceneCmd)) <= MaxQueue
    /\ Len(c.availableObjectIds) <= MaxFree
    /\ Len(c.channel) + (IF c.observe THEN Len(c.commandQueue) ELSE 0) <= MaxChannel

\* The state after a method returned (or threw) with controller state c;
\* the method's result is taken once, as the value s.
Commit(c) ==
    \E s \in {c} :
        /\ InBounds(s)
        /\ idToObject' = s.idToObject
        /\ availableObjectIds' = s.availableObjectIds
        /\ objectId' = s.objectId
        /\ meshId' = s.meshId
        /\ textureCache' = s.textureCache
        /\ commandQueue' = s.commandQueue
        /\ array' = s.array
        /\ material' = s.material
        /\ image' = s.image
        /\ matrixWorld' = s.matrixWorld
        /\ initCalled' = s.initCalled
        /\ observe' = s.observe
        /\ channel' = s.channel
        /\ submitted' = s.submitted
        /\ reports' = s.reports
        /\ workerLogged' = s.workerLogged
        /\ workerReported' = s.workerReported
        /\ UNCHANGED rendererVars
        /\ threw' = s.threw
        /\ constructed' = s.constructed
        /\ tick' = s.tick
        /\ UNCHANGED sharedArrayBufferDefined

\* the controller's map has the node under the identity the node carries
Registered(n) == meshId[n] \in DOMAIN idToObject /\ idToObject[meshId[n]] = n

\* One call of each public method, and the resize event of the window.
InitStep == Commit(init(Ctl))

AddObjectToSceneStep(o, ui) == Commit(addObjectToScene(Ctl, o, ui))

RemoveObjectFromSceneStep(o) == Commit(removeObjectFromScene(Ctl, o))

UpdateMaterialStep(o, ui) == Commit(updateMaterial(Ctl, o, ui))

FlushCommandsStep == Commit(flushCommands(Ctl))

UpdateStep == Commit(update(Ctl))

\* init() runs once per instance: its canvas can be transferred only once.
CallInit == ~initCalled /\ InitStep

CallAddObjectToScene == \E o \in AllObjects, ui \in BOOLEAN : AddObjectToSceneStep(o, ui)

CallRemoveObjectFromScene == \E o \in Nodes : RemoveObjectFromSceneStep(o)

CallUpdateMaterial ==
    \E o \in Objects, ui \in BOOLEAN :
        /\ Kind(o) \in {"Mesh", "Sprite"}
        /\ UpdateMaterialStep(o, ui)

CallFlushCommands == FlushCommandsStep

CallUpdate == UpdateStep

WindowResize ==
    /\ initCalled
    /\ Commit(onResize(Ctl))

\* The caller moves a registered object; this.#scene.updateMatrixWorld() at
\* the start of writeTransformsToArray makes the move the object's matrixWorld.
MoveObject ==
    \E o \in AllObjects, pose \in Poses :
        /\ Registered(o)
        /\ pose # matrixWorld[o]
        /\ Commit([Ctl EXCEPT !.matrixWorld[o] = pose])

\* The worker takes the next message of the channel and calls the method of
\* the renderer that the command's type names.
WorkerProcess ==
    /\ processed < Len(channel)
    /\ LET r == dispatch(Rnd, channel[processed + 1].cmd, processed + 1)
       IN /\ rInit' = r.init
          /\ rIdToObject' = r.idToObject
          /\ rMatrix' = r.matrix
          /\ rScene' = r.scene
          /\ rUiScene' = r.uiscene
          /\ rParticleSystems' = r.particle_systems
    /\ processed' = processed + 1
    /\ UNCHANGED <<controllerVars, array>>

\* One turn of the render loop that GraphicsBackend.init starts.
RenderTick ==
    /\ rInit
    /\ LET r == readTransformsFromArray(array, DOMAIN rIdToObject)
       IN rMatrix' = r.matrix /\ array' = r.transformArray
    /\ UNCHANGED <<processed, rInit, rIdToObject, rScene, rUiScene,
                   rParticleSystems, controllerVars>>

OnMessageStep(data) == Commit(onmessage(Ctl, data))

CreateParticleEmitterStep(emitter) == Commit(createParticleEmitter(Ctl, emitter))

\* every call makes a new Points object
CreateParticleEmitter ==
    \E emitter \in Emitters :
        /\ meshId[emitter] = Undefined
        /\ CreateParticleEmitterStep(emitter)

\* no tick is running: the controller's thread is free for the next call
Idle == tick.ids = <<>>

\* update() begins: the queue is flushed and the loops are entered
UpdateBegin ==
    /\ Idle
    /\ \E order \in Orderings(DOMAIN idToObject) : Commit(updateBegin(Ctl, order))

StoreElementStep == Commit(storeElement(Ctl))

\* the running tick does its next store
StoreElement == ~Idle /\ StoreElementStep

ConstructStep == Commit(constructor(Ctl))

\* new Graphics(), tried until it returns an instance
Construct == ~constructed /\ ConstructStep

\* The caller gives a node a material whose only texture is a normal map:
\* node.material = new MeshPhongMaterial({ normalMap: texture }).
AssignMaterial ==
    \E o \in Objects, t \in Textures :
        /\ HasMaterial(o)
        /\ material[o].normalMap = NoTexture
        /\ Commit([Ctl EXCEPT !.material[o] = [NoMaterial EXCEPT !.normalMap = t]])

\* a message of the worker arrives
WorkerMessage == \E data \in BackChannelMessages : OnMessageStep(data)

\* The field initialisers of Graphics, and the caller's objects.
Fields ==
    /\ idToObject = [k \in {} |-> NoObject]
    /\ availableObjectIds = <<>>
    /\ objectId = 0
    /\ meshId = [o \in Nodes |-> Undefined]
    /\ textureCache = {}
    /\ commandQueue = <<>>
    /\ array = [k \in 0 .. (ArrayLength - 1) |-> 0]
    /\ material = [o \in Nodes |-> InitialMaterial(o)]
    /\ image = Textures
    /\ matrixWorld = [o \in Nodes |-> 0]
    /\ initCalled = FALSE
    /\ channel = <<>>
    /\ submitted = <<>>
    /\ reports = 0
    /\ workerLogged = <<>>
    /\ workerReported = <<>>
    /\ processed = 0
    /\ rInit = FALSE
    /\ rIdToObject = [k \in {} |-> NoObject]
    /\ rMatrix = [k \in {} |-> Parsed]
    /\ rScene = {}
    /\ rUiScene = {}
    /\ rParticleSystems = {}
    /\ threw = FALSE
    /\ tick = NoTick

\* A freshly constructed Graphics, where SharedArrayBuffer exists.
Fresh ==
    /\ Fields
    /\ sharedArrayBufferDefined = TRUE
    /\ constructed = TRUE

Next ==
    \/ CallInit
    \/ CallAddObjectToScene
    \/ CallRemoveObjectFromScene
    \/ CallUpdateMaterial
    \/ CallFlushCommands
    \/ CallUpdate
    \/ WindowResize

\* The controller with the logs switched off: any number of calls.
Init == Fresh /\ observe = FALSE

\* The identity allocator: registration, removal and the flush of the queue.
NextAlloc ==
    \/ CallInit
    \/ CallAddObjectToScene
    \/ CallRemoveObjectFromScene
    \/ CallFlushCommands

SpecAlloc == Init /\ [][NextAlloc]_vars

\* The controller and the messages coming back from the worker.
NextBackChannel ==
    \/ CallInit
    \/ CallAddObjectToScene
    \/ CallFlushCommands
    \/ WorkerMessage

SpecBackChannel == Init /\ [][NextBackChannel]_vars

\* The controller with the logs kept: runs of at most MaxChannel commands.
InitObserved == Fresh /\ observe = TRUE

SpecObserved == InitObserved /\ [][Next]_vars

\* The controller ticking while the caller moves objects.
NextTransforms ==
    \/ CallInit
    \/ CallAddObjectToScene
    \/ CallUpdate
    \/ MoveObject

SpecTransforms == InitObserved /\ [][NextTransforms]_vars

\* The controller, the worker that takes its commands and the render loop.
NextRenderer ==
    \/ CallInit
    \/ CallAddObjectToScene
    \/ CallRemoveObjectFromScene
    \/ CallUpdate
    \/ WorkerProcess
    \/ RenderTick

SpecRenderer == InitObserved /\ [][NextRenderer]_vars

\* The render loop on the scene of the camera alone, which the caller moves.
NextRenderLoop ==
    \/ CallInit
    \/ CallUpdate
    \/ WindowResize
    \/ MoveObject
    \/ WorkerProcess
    \/ RenderTick

SpecRenderLoop == InitObserved /\ [][NextRenderLoop]_vars

\* ------------------------------------------------------------ properties
\* the nodes of a hierarchy that addObjectToScene registers, in traversal order
RenderableNodes(o) == SelectSeq(Traverse(o), IsRenderable)

HoldsIdentity(n) == Truthy(meshId[n])

\* the identities removeObjectFromScene(o) releases, in traversal order
ReleasedIds(o) ==
    LET nodes == SelectSeq(Traverse(o), HoldsIdentity)
    IN [j \in 1 .. Len(nodes) |-> meshId[nodes[j]]]

\* the identities waiting in the free list
FreeIds == {availableObjectIds[j] : j \in 1 .. Len(availableObjectIds)}

\* C1: no step hands an identity that is registered to one object to another
\* object: an identity in the map keeps its object for as long as it is in it.
C1_IdentityNeverShared ==
    [][\A i \in DOMAIN idToObject \cap DOMAIN idToObject' :
            idToObject'[i] = idToObject[i]]_vars

\* the identities a step took from the head of the free list went, in list
\* order, to the first nodes it registered; the rest of the list is untouched
TakenInOrder(nodes) ==
    LET m == Len(availableObjectIds) - Len(availableObjectIds')
    IN /\ m >= 0
       /\ m <= Len(nodes)
       /\ availableObjectIds' = SubSeq(availableObjectIds, m + 1, Len(availableObjectIds))
       /\ \A j \in 1 .. m : meshId'[nodes[j]] = availableObjectIds[j]

\* C2: identities are reused first in, first out: a removal appends the
\* identities it releases to the tail of the free list in the order it
\* releases them, and a registration takes identities from the head, so that
\* releasing A and then B makes the next two allocations return A and then B.
C2_FifoReuse ==
    [][/\ \A o \in AllObjects :
            RemoveObjectFromSceneStep(o) =>
                availableObjectIds' = availableObjectIds \o ReleasedIds(o)
       /\ \A o \in Objects, ui \in BOOLEAN :
            AddObjectToSceneStep(o, ui) => TakenInOrder(RenderableNodes(o))
       /\ InitStep => TakenInOrder(<<CAM>>)]_vars

\* two different identities were released and wait in release order
C2_Witness ==
    /\ Len(availableObjectIds) = 2
    /\ availableObjectIds[1] # availableObjectIds[2]
    /\ FreeIds \cap DOMAIN idToObject = {}

\* every node a step registers got the next identity of the free list while
\* there was one (counter untouched), else the counter value (counter + 1)
Allocated(nodes) ==
    LET L == Len(availableObjectIds)
        k == Len(nodes)
    IN /\ \A j \in 1 .. k :
            meshId'[nodes[j]] =
                IF j <= L THEN availableObjectIds[j] ELSE objectId + (j - L - 1)
       /\ objectId' = objectId + (IF k > L THEN k - L ELSE 0)
       /\ Len(availableObjectIds') = (IF k > L THEN 0 ELSE L - k)

\* C3: allocation prefers the free list over the counter: with a non-empty
\* free list assignIdToObject returns its head, removes it and leaves the
\* counter alone; with an empty one it returns the counter and increments it.
C3_AllocationPrefersFreeList ==
    [][/\ \A o \in Objects, ui \in BOOLEAN :
            (AddObjectToSceneStep(o, ui) /\ ~threw') => Allocated(RenderableNodes(o))
       /\ InitStep => Allocated(<<CAM>>)]_vars

\* an object removed at some identity, and a later object registered at it
C3_Witness ==
    \E o1, o2 \in Objects :
        /\ o1 # o2
        /\ HoldsIdentity(o1)
        /\ meshId[o1] = meshId[o2]
        /\ Registered(o2)
        /\ availableObjectIds = <<>>
        /\ objectId = Cardinality(DOMAIN idToObject)

\* C4: the free list holds only identities that are not keys of #idToObject.
C4_FreeListDisjoint == FreeIds \cap DOMAIN idToObject = {}

\* C5: removing an object none of whose nodes is registered (never added, or
\* removed before) changes neither the queue nor the free list nor the map.
C5_SecondRemovalIsNoOp ==
    [][\A o \in AllObjects :
            (/\ RemoveObjectFromSceneStep(o)
             /\ \A j \in 1 .. Len(Traverse(o)) : ~Registered(Traverse(o)[j]))
            => UNCHANGED <<commandQueue, availableObjectIds, idToObject>>]_vars

\* nothing was registered yet: init() is the first registration
NothingRegistered ==
    /\ objectId = 0
    /\ DOMAIN idToObject = {}
    /\ \A o \in AllObjects : meshId[o] = Undefined

\* init() ran on the fresh controller and no object was registered since
OnlyCameraRegistered ==
    /\ objectId = 1
    /\ availableObjectIds = <<>>
    /\ DOMAIN idToObject = {0}
    /\ idToObject[0] = CAM
    /\ \A o \in Objects : meshId[o] = Undefined

\* C6: when init() is the first operation the camera gets identity 0, and the
\* first object registered after it gets identity 1.
C6_CameraZeroFirstObjectOne ==
    [][/\ (NothingRegistered /\ InitStep) =>
            (meshId'[CAM] = 0 /\ DOMAIN idToObject' = {0} /\ idToObject'[0] = CAM)
       /\ \A o \in Objects, ui \in BOOLEAN :
            (OnlyCameraRegistered /\ AddObjectToSceneStep(o, ui)
                /\ RenderableNodes(o) # <<>>) =>
                LET first == RenderableNodes(o)[1]
                IN meshId'[first] = 1 /\ idToObject'[1] = first]_vars

\* the camera at 0 and exactly one object registered, at 1
C6_Witness ==
    /\ meshId[CAM] = 0
    /\ idToObject[0] = CAM
    /\ objectId = 2
    /\ \E o \in Objects :
        /\ Registered(o)
        /\ meshId[o] = 1
        /\ \A p \in Objects \ {o} : meshId[p] = Undefined

\* C7: identity 0 belongs to the camera for good: it is never on the free
\* list, and no object other than the camera is ever given it.
C7_ZeroReservedForCamera ==
    /\ 0 \notin FreeIds
    /\ \A o \in Objects : meshId[o] # 0
    /\ 0 \in DOMAIN idToObject => idToObject[0] = CAM

\* the number of capacity reports a step makes that registers `nodes` in order:
\* one for every node whose identity comes from the counter and is not below
\* the capacity
CounterReports(nodes) ==
    LET L == Len(availableObjectIds)
    IN Cardinality({j \in 1 .. Len(nodes) :
                        j > L /\ objectId + (j - L - 1) >= maxEntityCount})

\* the identities 0 .. N-1 are registered and none waits for reuse
FullHouse ==
    /\ DOMAIN idToObject = 0 .. (maxEntityCount - 1)
    /\ availableObjectIds = <<>>

\* the step appended an addObject command for `node` under identity `id`
EmitsAddObject(node, id) ==
    \E i \in (Len(commandQueue) + 1) .. Len(commandQueue') :
        /\ commandQueue'[i].type = "addObject"
        /\ commandQueue'[i].id = id
        /\ commandQueue'[i].obj = node

\* C8: with the identities 0 .. N-1 live and no identity to reuse, the next
\* registration returns N, registers the object, queues its addObject command
\* and reports the exceeded capacity, without throwing; a registration that
\* takes an identity below N from the counter reports nothing.
C8_CapacityReportAtN ==
    [][/\ \A o \in Objects, ui \in BOOLEAN :
            AddObjectToSceneStep(o, ui) =>
                LET nodes == RenderableNodes(o)
                IN /\ reports' = CounterReports(nodes)
                   /\ (FullHouse /\ nodes # <<>>) =>
                        /\ meshId'[nodes[1]] = maxEntityCount
                        /\ maxEntityCount \in DOMAIN idToObject'
                        /\ idToObject'[maxEntityCount] = nodes[1]
                        /\ EmitsAddObject(nodes[1], maxEntityCount)
                        /\ reports' >= 1
                        /\ ~threw'
       /\ InitStep =>
            /\ reports' = CounterReports(<<CAM>>)
            /\ FullHouse => (meshId'[CAM] = maxEntityCount /\ reports' = 1 /\ ~threw')]_vars

\* the registration at identity N happened and was reported
C8_Witness ==
    /\ reports = 1
    /\ ~threw
    /\ objectId = maxEntityCount + 1
    /\ DOMAIN idToObject = 0 .. maxEntityCount
    /\ availableObjectIds = <<>>
    /\ \E i \in 1 .. Len(commandQueue) :
        /\ commandQueue[i].type = "addObject"
        /\ commandQueue[i].id = maxEntityCount

\* C9: every step that raises the number of live objects above N reports the
\* exceeded capacity, also when the identity comes from the free list.
C9_ReportWheneverAboveCapacity ==
    [][(/\ Cardinality(DOMAIN idToObject') > maxEntityCount
        /\ Cardinality(DOMAIN idToObject') > Cardinality(DOMAIN idToObject))
        => reports' > 0]_vars

\* the commands the worker got from flushCommands, in arrival order; the init
\* command is the only one submitted on the immediate path
IsQueuedPost(m) == m.cmd.type # "init"

Delivered ==
    LET posts == SelectSeq(channel, IsQueuedPost)
    IN [j \in 1 .. Len(posts) |-> posts[j].cmd]

\* C10: the commands submitted on the queued path reach the worker once each
\* and in submission order, within a flush and across flushes: what was
\* delivered followed by what is pending is what was submitted, and a flush
\* (flushCommands, or update which calls it) leaves the queue empty.
C10_QueuedDeliveredOnceInOrder ==
    /\ [](Delivered \o commandQueue = submitted)
    /\ [][(FlushCommandsStep \/ UpdateStep) =>
            /\ commandQueue' = <<>>
            /\ Delivered' = Delivered \o commandQueue
            /\ submitted' = submitted]_vars

\* three commands of two flushes arrived, commands of different types among
\* them, and nothing is pending
C10_Witness ==
    /\ commandQueue = <<>>
    /\ Len(Delivered) >= 3
    /\ Delivered = submitted
    /\ \E i, j \in 1 .. Len(Delivered) : Delivered[i].type # Delivered[j].type

\* the commands an immediate submission can carry in the model
ImmediateCmds == {Cmd("init"), Cmd("resize")}

\* C11: submitCommand with immediate = true posts exactly that one command
\* and leaves the pending queue as it is: nothing is appended to it and
\* nothing of it is sent.  Stated for the method in every reachable state,
\* and for its one caller, init(), which then queues the first resize.
C11_ImmediateBypassesQueue ==
    /\ [](\A cmd \in ImmediateCmds, transfer \in BOOLEAN :
            LET c1 == submitCommand(Ctl, cmd, TRUE, transfer)
            IN /\ c1.commandQueue = commandQueue
               /\ c1.submitted = submitted
               /\ c1.channel = Append(channel, [cmd |-> cmd, transfer |-> transfer]))
    /\ [][InitStep =>
            /\ channel' = Append(channel, [cmd |-> Cmd("init"), transfer |-> TRUE])
            /\ commandQueue' = Append(commandQueue, Cmd("resize"))]_vars

\* init() ran while a command was pending: the worker got the init command
\* only, and the pending command still waits, ahead of the resize
C11_Witness ==
    /\ Len(channel) = 1
    /\ channel[1].cmd.type = "init"
    /\ Len(commandQueue) = 2
    /\ commandQueue[1].type = "addObject"
    /\ commandQueue[2].type = "resize"

\* C12: the init command reaches the worker before any other command.
C12_InitDeliveredFirst ==
    channel # <<>> => channel[1].cmd.type = "init"

\* the uploadTexture commands submitted for texture t so far
Uploads(t) ==
    {j \in 1 .. Len(submitted) :
        submitted[j].type = "uploadTexture" /\ submitted[j].tex = t}

\* C13: at most one uploadTexture command is ever emitted per texture, however
\* many addObjectToScene and updateMaterial calls reference it: a cached
\* texture has exactly one, any other none.
C13_OneUploadPerTexture ==
    \A t \in Textures :
        /\ Cardinality(Uploads(t)) <= 1
        /\ t \in textureCache => Cardinality(Uploads(t)) = 1

\* an object was registered with a texture and its material updated later,
\* and one upload of the texture was emitted
C13_Witness ==
    \E o \in Objects, i, j \in 1 .. Len(submitted) :
        /\ i < j
        /\ submitted[i].type = "addObject" /\ submitted[i].obj = o
        /\ submitted[j].type = "updateMaterial" /\ submitted[j].id = meshId[o]
        /\ material[o].map # NoTexture
        /\ Cardinality(Uploads(material[o].map)) = 1

\* C14: the texture cache only grows: no operation takes an identifier out.
C14_TextureCacheOnlyGrows ==
    [][textureCache \subseteq textureCache']_vars

\* a textured object was registered and removed, and its texture is still cached
C14_Witness ==
    \E o \in Objects :
        /\ HasMaterial(o)
        /\ HoldsIdentity(o)
        /\ ~Registered(o)
        /\ material[o].map \in textureCache
        /\ meshId[o] \in FreeIds

\* C15: every message from the worker is handled: the payload of a `log`
\* goes to the worker log hook, the payload of a `report` to the worker
\* report hook, and any other tag makes one report through the controller's
\* own report hook; the controller's state is otherwise untouched.
C15_BackChannelDispatch ==
    [][\A data \in BackChannelMessages :
        OnMessageStep(data) =>
            /\ workerLogged' = (IF data.type = "log" THEN <<data.message>> ELSE <<>>)
            /\ workerReported' = (IF data.type = "report" THEN <<data.message>> ELSE <<>>)
            /\ reports' = (IF data.type \in {"log", "report"} THEN 0 ELSE 1)
            /\ Len(workerLogged') + Len(workerReported') + reports' = 1
            /\ UNCHANGED <<idToObject, commandQueue, availableObjectIds, objectId>>]_vars

\* a `report` of the worker reached the worker report hook while the
\* controller had objects registered
C15_Witness ==
    /\ workerReported # <<>>
    /\ reports = 0
    /\ objectId > 1

\* the record update() stores for a live identity: the elements of the
\* object's world matrix as a Float32Array holds them
StoredRecord(id) ==
    [i \in 0 .. (elementsPerTransform - 1) |->
        fround(Elements(matrixWorld[idToObject[id]], i))]

\* C16: a tick sends every pending command first and then writes the whole
\* record of every identity that is live, and of no other identity.
C16_TickFlushesThenWritesAllLive ==
    [][UpdateStep =>
        /\ commandQueue' = <<>>
        /\ Delivered' = Delivered \o commandQueue
        /\ \A id \in DOMAIN idToObject :
            /\ Record(id) \subseteq DOMAIN array'
            /\ \A i \in 0 .. (elementsPerTransform - 1) :
                array'[id * elementsPerTransform + i] = StoredRecord(id)[i]
        /\ \A k \in DOMAIN array :
            (k \div elementsPerTransform) \notin DOMAIN idToObject
                => array'[k] = array[k]]_vars

\* C17: the records a tick writes lie inside the buffer of 16 x N elements,
\* each at the 16 elements of its identity, and no two of them overlap.
C17_RecordsInsideRegionDisjoint ==
    [][UpdateStep =>
        \A id \in DOMAIN idToObject :
            /\ Record(id) \subseteq DOMAIN array
            /\ \A other \in DOMAIN idToObject \ {id} :
                Record(id) \cap Record(other) = {}]_vars

\* C18: a render tick reads only records of identities below N: every record
\* readTransformsFromArray reads lies inside the buffer.
C18_ReadsInsideRegion ==
    [][RenderTick =>
        \A id \in DOMAIN rIdToObject :
            id < maxEntityCount /\ Record(id) \subseteq DOMAIN array]_vars

\* C19: no step of the worker changes the shared buffer: neither a command
\* it processes nor a turn of its render loop.
C19_RendererNeverWrites ==
    [][(WorkerProcess \/ RenderTick) => array' = array]_vars

\* a render tick copied a record the controller had written, and one it found
\* empty got the default scale
C19_Witness ==
    /\ \E id \in DOMAIN rMatrix :
        /\ rMatrix[id].kind = "copied"
        /\ rMatrix[id].elements = fromArray(array, id * elementsPerTransform)
    /\ \E id \in DOMAIN rMatrix : rMatrix[id] = Scaled

AllZero(record) == \A i \in DOMAIN record : record[i] = 0

\* C21: a render tick gives an object the default scale when the record it
\* read for it is all zero, and the record itself, unchanged, whenever the
\* record is not all zero.
C21_DefaultScaleOnlyForEmptyRecord ==
    [][RenderTick =>
        \A id \in DOMAIN rIdToObject :
            LET record == fromArray(array, id * elementsPerTransform)
            IN rMatrix'[id] = IF AllZero(record) THEN Scaled ELSE Copied(record)]_vars

\* the command the worker handles next
NextCommand == channel[processed + 1].cmd

\* C27: once the worker has handled removeObject for an identity, the object
\* that was registered at it is out of the renderer's map and out of both
\* scenes, the primary one and the UI one.
C27_RemovedObjectLeavesScenes ==
    [][(/\ processed < Len(channel)
        /\ NextCommand.type = "removeObject"
        /\ NextCommand.id \in DOMAIN rIdToObject
        /\ WorkerProcess) =>
            LET object == rIdToObject[NextCommand.id]
            IN /\ NextCommand.id \notin DOMAIN rIdToObject'
               /\ object \notin rScene'
               /\ object \notin rUiScene']_vars

\* Construction, with or without SharedArrayBuffer, and the first calls on
\* the instance.
InitConstruct ==
    /\ Fields
    /\ observe = FALSE
    /\ constructed = FALSE
    /\ sharedArrayBufferDefined \in BOOLEAN

NextConstruct ==
    \/ Construct
    \/ constructed /\ CallInit
    \/ constructed /\ CallAddObjectToScene
    \/ constructed /\ CallFlushCommands

SpecConstruct == InitConstruct /\ [][NextConstruct]_vars

\* C23: where SharedArrayBuffer is not defined, new Graphics() reports once,
\* does not throw and leaves an instance.
C23_ConstructsWithoutSharedMemory ==
    [][(~sharedArrayBufferDefined /\ ConstructStep) =>
            /\ reports' = 1
            /\ ~threw'
            /\ constructed']_vars

\* Materials with a normal map, registered and updated.
NextMaterials ==
    \/ CallAddObjectToScene
    \/ CallUpdateMaterial
    \/ CallFlushCommands
    \/ AssignMaterial

SpecMaterials == InitObserved /\ [][NextMaterials]_vars

\* the textures a serialised material names in the slots the renderer
\* resolves from its cache
TexturesOf(mat) == {mat.map, mat.alphaMap, mat.normalMap} \ {NoTexture}

\* C26: when the worker gets an addObject or updateMaterial command, it has
\* got, earlier in the channel, the uploadTexture command of every texture
\* the command's material names.
C26_TexturesUploadedBeforeUse ==
    \A j \in 1 .. Len(channel) :
        channel[j].cmd.type \in {"addObject", "updateMaterial"} =>
            \A t \in TexturesOf(channel[j].cmd.mat) :
                \E i \in 1 .. (j - 1) :
                    /\ channel[i].cmd.type = "uploadTexture"
                    /\ channel[i].cmd.tex = t

\* the commands a step appended to the pending queue
Appended == SubSeq(commandQueue', Len(commandQueue) + 1, Len(commandQueue'))

IsUpdateMaterialCmd(cmd) == cmd.type = "updateMaterial"

\* C22: updateMaterial for an object that is not registered fails loudly, by
\* an exception or a report, and queues no updateMaterial command.
C22_UpdateMaterialUnregisteredFailsLoudly ==
    [][\A o \in Objects, ui \in BOOLEAN :
        (/\ Kind(o) \in {"Mesh", "Sprite"}
         /\ ~Registered(o)
         /\ UpdateMaterialStep(o, ui)) =>
            /\ threw' \/ reports' > 0
            /\ SelectSeq(Appended, IsUpdateMaterialCmd) = <<>>]_vars

\* the nodes of a hierarchy that are registered, in traversal order
RegisteredNodes(o) == SelectSeq(Traverse(o), Registered)

\* C24: removeObjectFromScene queues one removeObject command for every node
\* of the subtree that holds an identity, takes the identity out of the map
\* and appends it to the free list, whatever the identity is.
C24_RemovalReleasesEveryIdentity ==
    [][\A o \in AllObjects :
        RemoveObjectFromSceneStep(o) =>
            LET nodes == RegisteredNodes(o)
                ids == [j \in 1 .. Len(nodes) |-> meshId[nodes[j]]]
            IN /\ Appended = [j \in 1 .. Len(nodes) |->
                                [Cmd("removeObject") EXCEPT !.id = ids[j]]]
               /\ availableObjectIds' = availableObjectIds \o ids
               /\ \A j \in 1 .. Len(nodes) : ids[j] \notin DOMAIN idToObject']_vars

IsAddObjectCmd(cmd) == cmd.type = "addObject"

C28_TransferListReachesChannel ==
    \A j \in 1 .. Len(channel) :
        channel[j].cmd.type \in {"init", "uploadTexture"} => channel[j].transfer

\* the earlier sequence is the start of the later one
IsPrefix(s, t) == Len(s) <= Len(t) /\ SubSeq(t, 1, Len(s)) = s

\* C29: the worker gets commands in the order they are posted, so an
\* immediate command, posted when it is submitted, comes after all that was
\* flushed before; what was pending then stays pending, to be posted by a
\* later flush, after the immediate command.
C29_ImmediateOrdering ==
    [][/\ IsPrefix(channel, channel')
       /\ InitStep =>
            /\ Len(channel') = Len(channel) + 1
            /\ channel'[Len(channel')].cmd.type = "init"
            /\ Delivered' = Delivered
            /\ IsPrefix(commandQueue, commandQueue')]_vars

\* init was posted after a flushed command and before a command that was
\* pending when init() ran
C29_Witness ==
    \E k \in 2 .. (Len(channel) - 1) :
        /\ channel[k].cmd.type = "init"
        /\ channel[k + 1].cmd.type = "addObject"
        /\ \A j \in 1 .. Len(submitted) :
            submitted[j].type = "addObject" => j < Len(submitted)
        /\ submitted[Len(submitted)].type = "resize"
        /\ commandQueue = <<>>

\* the resize commands the worker got
ResizePosts == {j \in 1 .. Len(channel) : channel[j].cmd.type = "resize"}

\* C30: a resize command, the first one of init() and the one of every
\* viewport change, is appended to the pending queue and reaches the worker
\* only with a flushCommands or update call.
C30_ResizeWaitsForFlush ==
    [][/\ (InitStep \/ WindowResize) =>
            /\ commandQueue' = Append(commandQueue, Cmd("resize"))
            /\ ResizePosts' = ResizePosts
       /\ ResizePosts' # ResizePosts => (FlushCommandsStep \/ UpdateStep)]_vars

\* the worker has the init command, and the resize of init() and the resize
\* of a viewport change wait in the queue
C30_Witness ==
    /\ Len(channel) = 1
    /\ channel[1].cmd.type = "init"
    /\ commandQueue = <<Cmd("resize"), Cmd("resize")>>

\* C31: a render tick reads the records of the identities of the renderer's
\* own map and of no other: a record the controller wrote for an identity the
\* renderer has no object for changes nothing in the renderer, and the tick
\* runs to its end.
C31_TickReadsOwnIdentitiesOnly ==
    [][RenderTick =>
        /\ DOMAIN rMatrix' = DOMAIN rIdToObject
        /\ \A id \in DOMAIN rIdToObject : rMatrix'[id] = readTransform(array, id)
        /\ UNCHANGED <<rIdToObject, rScene, rUiScene, processed, array>>]_vars

\* a tick copied the camera's record while the buffer held the record of an
\* identity the renderer had no object for yet
C31_Witness ==
    /\ rInit
    /\ 0 \in DOMAIN rMatrix /\ rMatrix[0].kind = "copied"
    /\ \E id \in DOMAIN idToObject :
        /\ id \notin DOMAIN rIdToObject
        /\ id < maxEntityCount
        /\ ~AllZero(fromArray(array, id * elementsPerTransform))

\* C33: with nothing pending and every message handled, init having been the
\* first message, the renderer's map has the identities of the controller's
\* map and no other.
C33_RendererMirrorsLiveIdentities ==
    (/\ commandQueue = <<>>
     /\ processed = Len(channel)
     /\ Len(channel) > 0
     /\ channel[1].cmd.type = "init") =>
        DOMAIN rIdToObject = DOMAIN idToObject

\* C35: every entry of the controller's map leads to an object that carries
\* the entry's key as its identity.
C35_MapAgreesWithObjects ==
    \A id \in DOMAIN idToObject : meshId[idToObject[id]] = id

\* C36: the record of an identity changes only in a tick, and only while the
\* identity is live: a removed object's record stays as the last tick before
\* the removal wrote it.
C36_StaleRecordsKept ==
    [][\A id \in Ids :
        fromArray(array', id * elementsPerTransform)
            # fromArray(array, id * elementsPerTransform)
                => (id \in DOMAIN idToObject /\ UpdateStep)]_vars

IsRemoveObjectCmd(cmd) == cmd.type = "removeObject"

\* an identity was released and its removeObject command sent, nothing is
\* pending, and its record still holds what a tick wrote
C36_Witness ==
    \E id \in Ids :
        /\ id < maxEntityCount
        /\ id \notin DOMAIN idToObject
        /\ \E j \in 1 .. Len(availableObjectIds) : availableObjectIds[j] = id
        /\ commandQueue = <<>>
        /\ \E j \in 1 .. Len(Delivered) :
            IsRemoveObjectCmd(Delivered[j]) /\ Delivered[j].id = id
        /\ ~AllZero(fromArray(array, id * elementsPerTransform))

\* C38: the counter never goes down, and every identity of the map and of
\* the free list is below it.
C38_IdentitiesBelowCounter ==
    /\ [][objectId' >= objectId]_vars
    /\ [](\A id \in DOMAIN idToObject : id < objectId)
    /\ [](\A j \in 1 .. Len(availableObjectIds) : availableObjectIds[j] < objectId)

\* the counter went beyond the capacity while identities were live and one
\* was waiting in the free list
C38_Witness ==
    /\ objectId > maxEntityCount
    /\ DOMAIN idToObject # {}
    /\ availableObjectIds # <<>>

\* The controller driven by its tick: the viewport changes, materials are
\* updated, the camera moves, and update() is called again and again.
NextTicking ==
    \/ CallInit
    \/ WindowResize
    \/ CallUpdateMaterial
    \/ MoveObject
    \/ CallUpdate

SpecTicking == InitObserved /\ [][NextTicking]_vars /\ WF_vars(CallUpdate)

NextParticles ==
    \/ CallInit
    \/ CallAddObjectToScene
    \/ CallRemoveObjectFromScene
    \/ CreateParticleEmitter
    \/ CallFlushCommands
    \/ WorkerProcess

SpecParticles == InitObserved /\ [][NextParticles]_vars

NextTearing ==
    \/ Idle /\ CallInit
    \/ Idle /\ MoveObject
    \/ UpdateBegin
    \/ StoreElement
    \/ WorkerProcess
    \/ RenderTick

SpecTearing == InitObserved /\ [][NextTearing]_vars

\* the record of a pose as the buffer holds it
PoseRecord(pose) ==
    [i \in 0 .. (elementsPerTransform - 1) |-> fround(Elements(pose, i))]

\* a record with elements of the records of two poses, some that only the
\* one has and some that only the other has
Torn(record) ==
    \E p, q \in Poses :
        /\ \A i \in DOMAIN record : record[i] \in {PoseRecord(p)[i], PoseRecord(q)[i]}
        /\ \E i \in DOMAIN record : record[i] # PoseRecord(q)[i]
        /\ \E i \in DOMAIN record : record[i] # PoseRecord(p)[i]

\* C32: the stores of a tick are single steps the worker can read between.
\* When a tick ends, the record of every live identity holds the 16 elements
\* of that tick; while no tick runs the buffer does not change; and a render
\* tick takes what the buffer holds: so a read after the end of a tick gets
\* that tick's whole record.
C32_WholeRecordAfterTick ==
    [][/\ (~Idle /\ tick'.ids = <<>> /\ StoreElementStep) =>
            \A id \in DOMAIN idToObject :
                id < maxEntityCount =>
                    fromArray(array', id * elementsPerTransform) = StoredRecord(id)
       /\ (Idle /\ tick'.ids = <<>>) => array' = array
       /\ (Idle /\ RenderTick) =>
            \A id \in DOMAIN rIdToObject :
                /\ rMatrix'[id] = readTransform(array, id)
                /\ ~Torn(fromArray(array, id * elementsPerTransform))]_vars

\* a render tick read a record in the middle of a tick: the matrix of the
\* renderer's object has elements of two ticks
C32_Witness ==
    \E id \in DOMAIN rMatrix :
        /\ rMatrix[id].kind = "copied"
        /\ Torn(rMatrix[id].elements)

====
